---- MODULE Spec2Model ----
(***************************************************************************)
(* Model of rockcraft's extension machinery: the Flask extension           *)
(* (src/rockcraft/extensions/flask.py), the built-in registration          *)
(* (src/rockcraft/extensions/__init__.py) and the collaborators they       *)
(* import (._utils, .registry), which are modelled from the specification. *)
(*                                                                         *)
(* A configuration value is a tagged record:                               *)
(*   scalar   [kind |-> "scalar", val |-> string]                          *)
(*   sequence [kind |-> "seq",    val |-> sequence of strings]             *)
(*   mapping  [kind |-> "map",    val |-> function from keys to values]    *)
(* A part and a document are functions from the keys they hold to values;  *)
(* "key in dict" is  key \in DOMAIN dict.                                  *)
(***************************************************************************)
EXTENDS Naturals, Sequences, FiniteSets, TLC

VARIABLES
    yaml_data,      \* Extension.yaml_data: the document being processed
    project_files,  \* os.listdir(project_root), as a sequence of names
    new_part,       \* the incoming part object a caller holds
    registry,       \* the extension registry: name -> implementation
    pc,             \* "idle" | "returned": the single caller's position
    ret             \* what the last operation returned or raised

vars == <<yaml_data, project_files, new_part, registry, pc, ret>>

----------------------------------------------------------------------------
(* Bounds *)

\* longest user-written sequence value
MaxLen == 2

\* longest list of extension names given to apply_extensions
MaxNames == 2

----------------------------------------------------------------------------
(* Values *)

Scalar(v) == [kind |-> "scalar", val |-> v]
List(v) == [kind |-> "seq", val |-> v]
Mapping(v) == [kind |-> "map", val |-> v]

EmptyDict == <<>>

\* dict.get(key, default)
Get(dict, key, default) == IF key \in DOMAIN dict THEN dict[key] ELSE default

\* dict.update(other) on a copy: other's entries win
Update(dict, other) ==
    [k \in DOMAIN dict \cup DOMAIN other |->
        IF k \in DOMAIN other THEN other[k] ELSE dict[k]]

Range(s) == {s[i] : i \in 1..Len(s)}

NoError == "none"
ConflictError == "ConflictError"
TypeMismatchError == "TypeMismatchError"
\* flask.py raises ValueError for the missing prerequisite (the spec's
\* abstract ValidationError)
ValidationError == "ValueError"
UnsupportedBaseError == "UnsupportedBaseError"
ExperimentalNotEnabledError == "ExperimentalNotEnabledError"
NotFoundError == "NotFoundError"
DuplicateNameError == "DuplicateNameError"

Ok(v) == [err |-> NoError, val |-> v]
Raise(e) == [err |-> e, val |-> "none"]

----------------------------------------------------------------------------
(* PropertyMerger: ._utils.apply_extension_property, imported by flask.py   *)
(* line 25 and not part of the sources; modelled from spec section 4.1.     *)

\* the sequence without repeated elements, first occurrences kept in order
RECURSIVE RemoveDuplicates(_)
RemoveDuplicates(s) ==
    IF s = <<>> THEN <<>>
    ELSE <<Head(s)>> \o
         RemoveDuplicates(SelectSeq(Tail(s), LAMBDA e : e # Head(s)))

RECURSIVE apply_extension_property(_, _)
apply_extension_property(base, incoming) ==
    IF base.kind # incoming.kind THEN Raise(TypeMismatchError)
    ELSE IF base.kind = "scalar" THEN
        IF base.val = incoming.val THEN Ok(base) ELSE Raise(ConflictError)
    ELSE IF base.kind = "seq" THEN
        Ok(List(RemoveDuplicates(base.val \o incoming.val)))
    ELSE
        LET shared == DOMAIN base.val \cap DOMAIN incoming.val
            sub == [k \in shared |->
                       apply_extension_property(base.val[k], incoming.val[k])]
            failing == {k \in shared : sub[k].err # NoError}
        IN  IF failing # {}
            THEN Raise(sub[CHOOSE k \in failing : TRUE].err)
            ELSE Ok(Mapping(
                   [k \in DOMAIN base.val \cup DOMAIN incoming.val |->
                       IF k \in shared THEN sub[k].val
                       ELSE IF k \in DOMAIN base.val THEN base.val[k]
                       ELSE incoming.val[k]]))

----------------------------------------------------------------------------
(* Flask._merge_part, flask.py lines 73-86.                                 *)
(* The outcome records the error raised (or none), the returned part, and   *)
(* the two argument objects as they are when the call ends.  `order` is the *)
(* iteration order of the Python set of property names.                     *)

MergeOutcome(err, val, base_part, new_part_) ==
    [err |-> err, val |-> val, base_part |-> base_part, new_part |-> new_part_]

RECURSIVE _merge_part_loop(_, _, _, _)
_merge_part_loop(base_part, new_part_, order, result) ==
    IF order = <<>> THEN MergeOutcome(NoError, result, base_part, new_part_)
    ELSE
      LET property_name == Head(order) IN
      IF property_name \in DOMAIN base_part /\ property_name \notin DOMAIN new_part_
      THEN _merge_part_loop(base_part, new_part_, Tail(order),
                            Update(result, property_name :> base_part[property_name]))
      ELSE IF property_name \notin DOMAIN base_part /\ property_name \in DOMAIN new_part_
      THEN _merge_part_loop(base_part, new_part_, Tail(order),
                            Update(result, property_name :> new_part_[property_name]))
      ELSE
        LET merged == apply_extension_property(base_part[property_name],
                                               new_part_[property_name])
        IN  IF merged.err # NoError
            THEN MergeOutcome(merged.err, "none", base_part, new_part_)
            ELSE _merge_part_loop(base_part, new_part_, Tail(order),
                                  Update(result, property_name :> merged.val))

\* set(base_part.keys()).union(set(new_part.keys()))
Properties(base_part, new_part_) == DOMAIN base_part \cup DOMAIN new_part_

(* Faulty variants of _merge_part, used to show that the properties below    *)
(* depend on it.                                                            *)

\* properties = set(base_part.keys()): the union with new_part's keys forgotten
_merge_part_base_keys_only(base_part, new_part_, order) ==
    _merge_part_loop(base_part, new_part_,
                     SelectSeq(order, LAMBDA p : p \in DOMAIN base_part), EmptyDict)

\* apply_extension_property(new_part[...], base_part[...]): arguments swapped
_merge_part_swapped(base_part, new_part_, order) ==
    LET m == _merge_part_loop(new_part_, base_part, order, EmptyDict)
    IN  MergeOutcome(m.err, m.val, base_part, new_part_)

\* the else branch keeps base_part's value instead of merging
_merge_part_keeps_base(base_part, new_part_, order) ==
    MergeOutcome(NoError, Update(new_part_, base_part), base_part, new_part_)

\* result = base_part instead of result = {}: the merge is written into the
\* caller's object
_merge_part_in_place(base_part, new_part_, order) ==
    LET m == _merge_part_loop(base_part, new_part_, order, EmptyDict)
    IN  MergeOutcome(m.err, m.val,
                     IF m.err = NoError THEN m.val ELSE base_part, new_part_)

_merge_part(base_part, new_part_, order) ==
    _merge_part_loop(base_part, new_part_, order, EmptyDict)

\* the elements of S in some order
RECURSIVE SetToSeq(_)
SetToSeq(S) ==
    IF S = {} THEN <<>>
    ELSE LET x == CHOOSE y \in S : TRUE IN <<x>> \o SetToSeq(S \ {x})

\* Iteration orders of the Python set of property names.  Only a property held
\* by both parts can raise, and the loop stops at the first that does, so the
\* outcomes over all orders are those of the orders that start with each
\* shared property in turn.
IterationOrders(base_part, new_part_) ==
    LET shared == DOMAIN base_part \cap DOMAIN new_part_
        all == Properties(base_part, new_part_)
    IN  IF shared = {} THEN {SetToSeq(all)}
        ELSE {<<p>> \o SetToSeq(all \ {p}) : p \in shared}

----------------------------------------------------------------------------
(* Flask, flask.py lines 29-142.  A method's outcome records the error      *)
(* raised (or none), the value returned and self.yaml_data as the call      *)
(* leaves it.                                                               *)

\* Faulty variant: a base the extension does not support is listed
get_supported_bases_too_many ==
    {"bare", "ubuntu:20.04", "ubuntu:22.04", "unsupported-base:1.0"}

\* lines 32-36
get_supported_bases == {"bare", "ubuntu:20.04", "ubuntu:22.04"}

\* Faulty variant: the extension reports itself stable
is_experimental_never(base) == FALSE

\* lines 38-42
is_experimental(base) == TRUE

\* lines 68-71
get_part_snippet == EmptyDict

\* lines 139-142
get_parts_snippet == EmptyDict

install_app_part_name == "flask/install-app"
dependencies_part_name == "flask/dependencies"

\* self.yaml_data.get("parts", {}), as a dict of part name -> part dict
CurrentParts(yaml) ==
    LET parts == Get(yaml, "parts", Mapping(EmptyDict)).val
    IN  [n \in DOMAIN parts |-> parts[n].val]

\* the document with the object of an existing part replaced
WithPart(yaml, part_name, part) ==
    IF "parts" \in DOMAIN yaml /\ part_name \in DOMAIN yaml["parts"].val
    THEN Update(yaml, "parts" :>
             Mapping(Update(yaml["parts"].val, part_name :> Mapping(part))))
    ELSE yaml

\* lines 88-91; existing_part is the document's own part object when the
\* document holds one, and a fresh {} otherwise
_merge_existing_part(yaml, part_name, part_def, order) ==
    LET existing_part == Get(CurrentParts(yaml), part_name, EmptyDict)
        merged == _merge_part(existing_part, part_def, order)
    IN  [err |-> merged.err, val |-> merged.val,
         yaml_data |-> WithPart(yaml, part_name, merged.base_part),
         new_part |-> merged.new_part]

\* f.endswith(".rock"), over the file names of the model
EndsWithRock(f) == f \in {"app.rock", "old.rock"}

ignores == {".git", "node_modules", ".yarn"}

\* lines 105-110
source_files(files) ==
    SelectSeq(files, LAMBDA f : f \notin ignores /\ ~EndsWithRock(f))

\* os.path.join("srv/flask/app", f)
JoinApp(f) == "srv/flask/app/" \o f

\* lines 116-121
install_app_part(files) ==
    LET src == source_files(files) IN
    [p \in {"plugin", "source", "organize", "stage"} |->
        CASE p = "plugin" -> Scalar("dump")
          [] p = "source" -> Scalar(".")
          [] p = "organize" -> Mapping([f \in Range(src) |-> Scalar(JoinApp(f))])
          [] p = "stage" -> List([i \in 1..Len(src) |-> JoinApp(src[i])])]

\* lines 122-128
dependencies_part ==
    [p \in {"plugin", "stage-packages", "source", "python-packages",
            "python-requirements"} |->
        CASE p = "plugin" -> Scalar("python")
          [] p = "stage-packages" -> List(<<"python3-venv">>)
          [] p = "source" -> Scalar(".")
          [] p = "python-packages" -> List(<<"gunicorn">>)
          [] p = "python-requirements" -> List(<<"requirements.txt">>)]

\* lines 105-137: the two parts, each merged with the document's part of the
\* same name; order_dep and order_app are the iteration orders of the two
\* _merge_part calls
_gen_new_parts_body(yaml, files, order_dep, order_app) ==
    LET dep == _merge_existing_part(yaml, dependencies_part_name,
                                    dependencies_part, order_dep)
    IN  IF dep.err # NoError
        THEN [err |-> dep.err, val |-> "none", yaml_data |-> dep.yaml_data]
        ELSE
          LET app == _merge_existing_part(dep.yaml_data, install_app_part_name,
                                          install_app_part(files), order_app)
          IN  IF app.err # NoError
              THEN [err |-> app.err, val |-> "none", yaml_data |-> app.yaml_data]
              ELSE [err |-> NoError,
                    val |-> (dependencies_part_name :> dep.val)
                            @@ (install_app_part_name :> app.val),
                    yaml_data |-> app.yaml_data]

\* Faulty variant: the requirements.txt check is missing
_gen_new_parts_no_check(yaml, files, order_dep, order_app) ==
    _gen_new_parts_body(yaml, files, order_dep, order_app)

\* the document with `part` stored under parts[part_name]
SetPart(yaml, part_name, part) ==
    Update(yaml, "parts" :>
        Mapping(Update(Get(yaml, "parts", Mapping(EmptyDict)).val,
                       part_name :> Mapping(part))))

\* Faulty variant: each merged part is written into self.yaml_data["parts"] as
\* soon as it is merged
_gen_new_parts_writes_document(yaml, files, order_dep, order_app) ==
    IF "requirements.txt" \notin Range(files)
    THEN [err |-> ValidationError, val |-> "none", yaml_data |-> yaml]
    ELSE
      LET dep == _merge_existing_part(yaml, dependencies_part_name,
                                      dependencies_part, order_dep)
      IN  IF dep.err # NoError
          THEN [err |-> dep.err, val |-> "none", yaml_data |-> yaml]
          ELSE
            LET written == SetPart(yaml, dependencies_part_name, dep.val)
                app == _merge_existing_part(written, install_app_part_name,
                                            install_app_part(files), order_app)
            IN  IF app.err # NoError
                THEN [err |-> app.err, val |-> "none", yaml_data |-> written]
                ELSE [err |-> NoError,
                      val |-> (dependencies_part_name :> dep.val)
                              @@ (install_app_part_name :> app.val),
                      yaml_data |-> SetPart(written, install_app_part_name, app.val)]

\* lines 93-137
_gen_new_parts(yaml, files, order_dep, order_app) ==
    IF "requirements.txt" \notin Range(files)
    THEN [err |-> ValidationError, val |-> "none", yaml_data |-> yaml]
    ELSE _gen_new_parts_body(yaml, files, order_dep, order_app)

\* Faulty variant: run_user is set whether or not the document has one
RootDefaults_always_run_user(yaml) ==
    LET s1 == "run_user" :> Scalar("_daemon_")
        s2 == IF "build-base" \notin DOMAIN yaml
                 /\ Get(yaml, "base", Scalar("bare")) = Scalar("bare")
              THEN Update(s1, "build-base" :> Scalar("ubuntu:22.04")) ELSE s1
        s3 == IF "platforms" \notin DOMAIN yaml
              THEN Update(s2, "platforms" :> Mapping("amd64" :> Mapping(EmptyDict)))
              ELSE s2
    IN  s3

\* lines 53-62: the root defaults, before "parts" is added
RootDefaults(yaml) ==
    LET s1 == IF "run_user" \notin DOMAIN yaml
              THEN "run_user" :> Scalar("_daemon_") ELSE EmptyDict
        s2 == IF "build-base" \notin DOMAIN yaml
                 /\ Get(yaml, "base", Scalar("bare")) = Scalar("bare")
              THEN Update(s1, "build-base" :> Scalar("ubuntu:22.04")) ELSE s1
        s3 == IF "platforms" \notin DOMAIN yaml
              THEN Update(s2, "platforms" :> Mapping("amd64" :> Mapping(EmptyDict)))
              ELSE s2
    IN  s3

\* lines 44-66
get_root_snippet(yaml, files, order_dep, order_app) ==
    LET snippet == RootDefaults(yaml)
        current_parts == CurrentParts(yaml)
        new_parts == _gen_new_parts(yaml, files, order_dep, order_app)
    IN  IF new_parts.err # NoError
        THEN [err |-> new_parts.err, val |-> "none", yaml_data |-> new_parts.yaml_data]
        ELSE [err |-> NoError,
              val |-> Update(snippet, "parts" :>
                        Mapping([n \in DOMAIN current_parts \cup DOMAIN new_parts.val |->
                            Mapping(Update(current_parts, new_parts.val)[n])])),
              yaml_data |-> new_parts.yaml_data]

\* the iteration orders of the two merges _gen_new_parts performs on a document
DepOrders(yaml) ==
    IterationOrders(Get(CurrentParts(yaml), dependencies_part_name, EmptyDict),
                    dependencies_part)

AppOrders(yaml, files) ==
    IterationOrders(Get(CurrentParts(yaml), install_app_part_name, EmptyDict),
                    install_app_part(files))

----------------------------------------------------------------------------
(* ExtensionRegistry: .registry (register, unregister, get_extension_class, *)
(* get_extension_names), imported by __init__.py line 20 and not part of    *)
(* the sources; modelled from spec section 4.3.  An outcome records the     *)
(* error, the value returned and the registry as the call leaves it.        *)

\* Faulty variant: an existing registration is overwritten
register_overwrites(reg, name, impl) ==
    [err |-> NoError, val |-> "none", registry |-> Update(reg, name :> impl)]

register(reg, name, impl) ==
    IF name \in DOMAIN reg
    THEN [err |-> DuplicateNameError, val |-> "none", registry |-> reg]
    ELSE [err |-> NoError, val |-> "none", registry |-> Update(reg, name :> impl)]

unregister(reg, name) ==
    IF name \notin DOMAIN reg
    THEN [err |-> NotFoundError, val |-> "none", registry |-> reg]
    ELSE [err |-> NoError, val |-> "none",
          registry |-> [n \in DOMAIN reg \ {name} |-> reg[n]]]

get_extension_class(reg, name) ==
    IF name \notin DOMAIN reg
    THEN [err |-> NotFoundError, val |-> "none", registry |-> reg]
    ELSE [err |-> NoError, val |-> reg[name], registry |-> reg]

get_extension_names(reg) ==
    [err |-> NoError, val |-> DOMAIN reg, registry |-> reg]

\* __init__.py lines 30-32: register("flask", _Flask) at import
BuiltinRegistry == register(EmptyDict, "flask", "Flask").registry

----------------------------------------------------------------------------
(* ExtensionProcessor: ._utils.apply_extensions, imported by __init__.py    *)
(* line 19 and not part of the sources; modelled from spec section 4.5.     *)
(* The document is merged in place, one extension at a time; an outcome     *)
(* records the error and the document as the call leaves it.  Each operator *)
(* yields the set of outcomes the iteration orders allow.                   *)

\* the document's declared base; Python's None when there is none
DeclaredBase(yaml) == IF "base" \in DOMAIN yaml THEN yaml["base"].val ELSE "None"

\* the outcomes of Flask.get_root_snippet over the iteration orders
RootSnippetOutcomes(yaml, files) ==
    {get_root_snippet(yaml, files, order_dep, order_app) :
        order_dep \in DepOrders(yaml), order_app \in AppOrders(yaml, files)}

\* step 4: a snippet merged into the document (PropertyMerger on root keys,
\* PartMerger on parts: both are the recursive mapping rule)
MergeSnippet(yaml, snippet) ==
    LET m == apply_extension_property(Mapping(yaml), Mapping(snippet))
    IN  IF m.err # NoError
        THEN [err |-> m.err, yaml_data |-> yaml]
        ELSE [err |-> NoError, yaml_data |-> m.val.val]

\* steps 3-5 for the parts snippet and the per-part snippet
MergePartsSnippets(yaml) ==
    LET with_parts ==
            IF get_parts_snippet = EmptyDict THEN [err |-> NoError, yaml_data |-> yaml]
            ELSE MergeSnippet(yaml, "parts" :> Mapping(get_parts_snippet))
    IN  IF with_parts.err # NoError \/ get_part_snippet = EmptyDict
        THEN with_parts
        ELSE MergeSnippet(with_parts.yaml_data,
                 "parts" :> Mapping([n \in DOMAIN CurrentParts(with_parts.yaml_data) |->
                                        Mapping(get_part_snippet)]))

\* steps 1-5 for one extension name
apply_extension(yaml, extension_name, opt_in, reg, files) ==
    LET cls == get_extension_class(reg, extension_name)
        base == DeclaredBase(yaml)
    IN  IF cls.err # NoError
        THEN {[err |-> cls.err, yaml_data |-> yaml]}
        ELSE IF base \notin get_supported_bases
        THEN {[err |-> UnsupportedBaseError, yaml_data |-> yaml]}
        ELSE IF is_experimental(base) /\ ~opt_in
        THEN {[err |-> ExperimentalNotEnabledError, yaml_data |-> yaml]}
        ELSE
          {IF root.err # NoError
           THEN [err |-> root.err, yaml_data |-> root.yaml_data]
           ELSE LET merged == MergeSnippet(root.yaml_data, root.val)
                IN  IF merged.err # NoError THEN merged
                    ELSE MergePartsSnippets(merged.yaml_data)
             : root \in RootSnippetOutcomes(yaml, files)}

RECURSIVE apply_extensions(_, _, _, _, _)
apply_extensions(yaml, extension_names, opt_in, reg, files) ==
    IF extension_names = <<>> THEN {[err |-> NoError, yaml_data |-> yaml]}
    ELSE UNION {
           IF one.err # NoError THEN {one}
           ELSE apply_extensions(one.yaml_data, Tail(extension_names), opt_in, reg, files)
             : one \in apply_extension(yaml, Head(extension_names), opt_in, reg, files)}

----------------------------------------------------------------------------
(* Calls of _merge_existing_part / _merge_part on arbitrary parts           *)

NoRet == [op |-> "none", arg |-> "none", err |-> NoError, val |-> "none"]

Absent == [kind |-> "absent", val |-> "absent"]

\* the dict holding the entries of f that are not Absent
MakeDict(f) == [k \in {x \in DOMAIN f : f[x] # Absent} |-> f[k]]

SeqsUpTo(E, n) == UNION {[1..m -> E] : m \in 0..n}

PluginValues == {Absent, Scalar("python"), Scalar("dump")}

StagePackagesValues ==
    {Absent, Scalar("python3-venv")}
    \cup {List(q) : q \in SeqsUpTo({"python3-venv", "curl"}, MaxLen)}

OrganizeValues ==
    {Absent,
     Mapping("app.py" :> Scalar("srv/flask/app/app.py")),
     Mapping("app.py" :> Scalar("bin/app.py")),
     Mapping("static" :> Scalar("srv/flask/app/static"))}

UserParts ==
    {MakeDict(("plugin" :> a) @@ ("stage-packages" :> b) @@ ("organize" :> c)) :
        a \in PluginValues, b \in StagePackagesValues, c \in OrganizeValues}

DefaultFiles == <<"app.py", "requirements.txt">>

IncomingParts == UserParts \cup {dependencies_part, install_app_part(DefaultFiles)}

MergeDocs ==
    {EmptyDict}
    \cup {"parts" :> Mapping(dependencies_part_name :> Mapping(p)) : p \in UserParts}

InitMerge ==
    /\ yaml_data \in MergeDocs
    /\ new_part \in IncomingParts
    /\ project_files = DefaultFiles
    /\ registry = BuiltinRegistry
    /\ pc = "idle"
    /\ ret = NoRet

\* self._merge_existing_part(part_name, new_part)
CallMergeExistingPart ==
    /\ pc = "idle"
    /\ \E part_name \in {dependencies_part_name, install_app_part_name} :
       \E order \in IterationOrders(
                      Get(CurrentParts(yaml_data), part_name, EmptyDict), new_part) :
          LET out == _merge_existing_part(yaml_data, part_name, new_part, order)
          IN  /\ yaml_data' = out.yaml_data
              /\ new_part' = out.new_part
              /\ ret' = [op |-> "_merge_existing_part", arg |-> part_name,
                         err |-> out.err, val |-> out.val]
    /\ pc' = "returned"
    /\ UNCHANGED <<project_files, registry>>

\* the caller drops the result and goes on
Return ==
    /\ pc = "returned"
    /\ pc' = "idle"
    /\ ret' = NoRet
    /\ UNCHANGED <<yaml_data, project_files, new_part, registry>>

NextMerge == CallMergeExistingPart \/ Return

SpecMerge == InitMerge /\ [][NextMerge]_vars

----------------------------------------------------------------------------
(* Properties of part merging, checked under SpecMerge                      *)

\* a step in which _merge_existing_part is called and returns or raises
MergeCallStep ==
    pc = "idle" /\ pc' = "returned" /\ ret'.op = "_merge_existing_part"

\* the base part a call on part `name` reads from the document
BaseOf(yaml, name) == Get(CurrentParts(yaml), name, EmptyDict)

SharedProps(base, incoming) == DOMAIN base \cap DOMAIN incoming

\* the errors PropertyMerger.merge raises on the shared properties
SharedErrors(base, incoming) ==
    {apply_extension_property(base[p], incoming[p]).err :
        p \in SharedProps(base, incoming)} \ {NoError}

IsReturnedMerge == pc = "returned" /\ ret.op = "_merge_existing_part"

\* C1: mergeParts returns a part whose property names are the union of both
\* inputs' names; a base-only property keeps base's value, an incoming-only
\* property keeps incoming's value, a shared property has
\* PropertyMerger.merge(base value, incoming value); and if that merge fails
\* for a shared property, mergeParts fails with such an error.
C1_MergePartsContract ==
    [][MergeCallStep =>
        LET base == BaseOf(yaml_data, ret'.arg)
            incoming == new_part
            errs == SharedErrors(base, incoming)
        IN  IF errs # {}
            THEN ret'.err \in errs
            ELSE /\ ret'.err = NoError
                 /\ DOMAIN ret'.val = DOMAIN base \cup DOMAIN incoming
                 /\ \A p \in DOMAIN ret'.val :
                      ret'.val[p] =
                        IF p \notin DOMAIN incoming THEN base[p]
                        ELSE IF p \notin DOMAIN base THEN incoming[p]
                        ELSE apply_extension_property(base[p], incoming[p]).val
    ]_vars

\* a merge that returned a part with a base-only, an incoming-only and a
\* shared property
C1_Witness ==
    /\ IsReturnedMerge
    /\ ret.err = NoError
    /\ LET base == BaseOf(yaml_data, ret.arg)
       IN  /\ DOMAIN base \ DOMAIN new_part # {}
           /\ DOMAIN new_part \ DOMAIN base # {}
           /\ SharedProps(base, new_part) # {}

\* the position of the first occurrence of x in s
FirstIndex(s, x) == CHOOSE i \in 1..Len(s) : s[i] = x /\ \A j \in 1..(i-1) : s[j] # x

\* r holds every element of a and b exactly once, a's elements first in their
\* order of first occurrence, then b's other elements in theirs
IsOrderedUnion(r, a, b) ==
    /\ Range(r) = Range(a) \cup Range(b)
    /\ \A i, j \in 1..Len(r) : i # j => r[i] # r[j]
    /\ \A i, j \in 1..Len(r) :
         i < j =>
           \/ r[i] \in Range(a) /\ r[j] \notin Range(a)
           \/ /\ r[i] \in Range(a) /\ r[j] \in Range(a)
              /\ FirstIndex(a, r[i]) < FirstIndex(a, r[j])
           \/ /\ r[i] \notin Range(a) /\ r[j] \notin Range(a)
              /\ FirstIndex(b, r[i]) < FirstIndex(b, r[j])

\* C2: merging a sequence-valued property (base A, incoming B) yields every
\* element of A and B exactly once, A's elements first in their original
\* order, then the elements of B not in A in their original order; and when
\* the document's dependencies part already lists exactly the stage-packages
\* the extension contributes, the merged list has no duplicated element.
C2_SequenceMerge ==
    [][(MergeCallStep /\ ret'.err = NoError) =>
        LET base == BaseOf(yaml_data, ret'.arg)
            incoming == new_part
        IN  /\ \A p \in SharedProps(base, incoming) :
                 (base[p].kind = "seq" /\ incoming[p].kind = "seq") =>
                   /\ p \in DOMAIN ret'.val
                   /\ ret'.val[p].kind = "seq"
                   /\ IsOrderedUnion(ret'.val[p].val, base[p].val, incoming[p].val)
            /\ ( /\ ret'.arg = dependencies_part_name
                 /\ incoming = dependencies_part
                 /\ "stage-packages" \in DOMAIN base
                 /\ base["stage-packages"] = dependencies_part["stage-packages"] )
               => ret'.val["stage-packages"] = List(<<"python3-venv">>)
    ]_vars

\* a merge of two overlapping sequences where incoming adds an element
C2_Witness ==
    /\ IsReturnedMerge
    /\ ret.err = NoError
    /\ LET base == BaseOf(yaml_data, ret.arg)
       IN  \E p \in SharedProps(base, new_part) :
             /\ base[p].kind = "seq" /\ new_part[p].kind = "seq"
             /\ Range(base[p].val) \cap Range(new_part[p].val) # {}
             /\ Range(new_part[p].val) \ Range(base[p].val) # {}
             /\ Len(ret.val[p].val) = 2

\* the shared properties whose two values are scalars
ScalarPairs(base, incoming) ==
    {p \in SharedProps(base, incoming) :
        base[p].kind = "scalar" /\ incoming[p].kind = "scalar"}

\* C3: merging a property whose base and incoming values are unequal scalars
\* fails (with ConflictError, unless another property fails first with its
\* own error); for equal scalars the merge returns that scalar, without error.
C3_ScalarConflict ==
    [][MergeCallStep =>
        LET base == BaseOf(yaml_data, ret'.arg)
            incoming == new_part
            scalars == ScalarPairs(base, incoming)
        IN  /\ (\E p \in scalars : base[p] # incoming[p]) =>
                 /\ ret'.err # NoError
                 /\ (SharedProps(base, incoming) = scalars => ret'.err = ConflictError)
            /\ ( /\ SharedProps(base, incoming) = scalars
                 /\ \A p \in scalars : base[p] = incoming[p] )
               => /\ ret'.err = NoError
                  /\ \A p \in scalars : ret'.val[p] = base[p]
    ]_vars

\* a user part named like the extension's part, with another plugin, was merged
\* with the extension's part and the merge raised ConflictError
C3_Witness ==
    /\ IsReturnedMerge
    /\ ret.err = ConflictError
    /\ ret.arg = dependencies_part_name
    /\ new_part = dependencies_part
    /\ LET base == BaseOf(yaml_data, ret.arg)
       IN  "plugin" \in DOMAIN base /\ base["plugin"] = Scalar("dump")

\* C4: mergeParts never mutates its arguments: after any call, successful or
\* failed, base and incoming are what they were, and the document's part that
\* was passed as base is unchanged.
C4_NoMutation ==
    [][MergeCallStep => (yaml_data' = yaml_data /\ new_part' = new_part)]_vars

\* a merge against an existing part of the document returned a part that
\* differs from that existing part
C4_Witness ==
    /\ IsReturnedMerge
    /\ ret.err = NoError
    /\ ret.arg \in DOMAIN CurrentParts(yaml_data)
    /\ ret.val # BaseOf(yaml_data, ret.arg)
    /\ new_part # EmptyDict

----------------------------------------------------------------------------
(* The registry, under register / unregister / get calls                    *)

ExtensionNames == {"flask", "django", "fastapi"}
Implementations == {"Flask", "Django", "Other"}

InitRegistry ==
    /\ yaml_data = EmptyDict
    /\ new_part = EmptyDict
    /\ project_files = DefaultFiles
    /\ registry = BuiltinRegistry
    /\ pc = "idle"
    /\ ret = NoRet

RegistryCall(op, arg, out) ==
    /\ registry' = out.registry
    /\ ret' = [op |-> op, arg |-> arg, err |-> out.err, val |-> out.val]
    /\ pc' = "returned"
    /\ UNCHANGED <<yaml_data, project_files, new_part>>

CallRegister ==
    /\ pc = "idle"
    /\ \E name \in ExtensionNames, impl \in Implementations :
         RegistryCall("register", [name |-> name, impl |-> impl],
                      register(registry, name, impl))

CallUnregister ==
    /\ pc = "idle"
    /\ \E name \in ExtensionNames :
         RegistryCall("unregister", [name |-> name], unregister(registry, name))

CallGetExtensionClass ==
    /\ pc = "idle"
    /\ \E name \in ExtensionNames :
         RegistryCall("get_extension_class", [name |-> name],
                      get_extension_class(registry, name))

CallGetExtensionNames ==
    /\ pc = "idle"
    /\ RegistryCall("get_extension_names", "none", get_extension_names(registry))

NextRegistry ==
    \/ CallRegister
    \/ CallUnregister
    \/ CallGetExtensionClass
    \/ CallGetExtensionNames
    \/ Return

SpecRegistry == InitRegistry /\ [][NextRegistry]_vars

\* C5: in every registry state, register(name, impl2) on a registered name
\* fails with DuplicateNameError and leaves the registry unchanged, and a get
\* of a registered name returns the implementation the registry holds for it
\* (so the first registration stays the one returned).
C5_DuplicateRegistration ==
    [][(pc = "idle" /\ pc' = "returned") =>
        /\ (ret'.op = "register" /\ ret'.arg.name \in DOMAIN registry) =>
             /\ ret'.err = DuplicateNameError
             /\ registry' = registry
        /\ (ret'.op = "get_extension_class" /\ ret'.arg.name \in DOMAIN registry) =>
             /\ ret'.err = NoError
             /\ ret'.val = registry[ret'.arg.name]
             /\ registry' = registry
    ]_vars

\* "flask" was registered again with another implementation, the call failed
\* and the registry still maps it to the built-in Flask
C5_Witness ==
    /\ pc = "returned"
    /\ ret.op = "register"
    /\ ret.arg = [name |-> "flask", impl |-> "Other"]
    /\ ret.err = DuplicateNameError
    /\ "flask" \in DOMAIN registry /\ registry["flask"] = "Flask"

----------------------------------------------------------------------------
(* Applying extensions to documents                                         *)

BaseValues ==
    {Absent, Scalar("bare"), Scalar("ubuntu:22.04"), Scalar("unsupported-base:1.0")}

RunUserValues == {Absent, Scalar("root")}

BuildBaseValues == {Absent, Scalar("ubuntu:20.04")}

PlatformsValues == {Absent, Mapping("arm64" :> Mapping(EmptyDict))}

\* what a user may have written under parts["flask/dependencies"]
UserDependenciesParts ==
    {Absent,
     Mapping("stage-packages" :> List(<<"python3-venv">>)),
     Mapping("stage-packages" :> List(<<"curl", "python3-venv">>)),
     Mapping("plugin" :> Scalar("dump")),
     Mapping(("plugin" :> Scalar("dump")) @@ ("stage-packages" :> Scalar("curl")))}

\* what a user may have written under parts["flask/install-app"]
UserInstallAppParts ==
    {Absent,
     Mapping("plugin" :> Scalar("nil")),
     Mapping("stage" :> List(<<"srv/flask/app/app.py", "etc/app.conf">>))}

PartsValues ==
    {IF d = Absent /\ a = Absent THEN Absent
     ELSE Mapping(MakeDict((dependencies_part_name :> d) @@ (install_app_part_name :> a))) :
        d \in UserDependenciesParts, a \in UserInstallAppParts}

Documents ==
    {MakeDict(("base" :> b) @@ ("run_user" :> u) @@ ("build-base" :> bb)
              @@ ("platforms" :> pf) @@ ("parts" :> ps)) :
        b \in BaseValues, u \in RunUserValues, bb \in BuildBaseValues,
        pf \in PlatformsValues, ps \in PartsValues}

ProjectListings ==
    {DefaultFiles,
     <<"app.py">>,
     <<".git", "requirements.txt", "static", "app.py", "old.rock">>}

NameLists == SeqsUpTo({"flask", "django"}, MaxNames)

InitApply ==
    /\ yaml_data \in Documents
    /\ project_files \in ProjectListings
    /\ new_part = EmptyDict
    /\ registry = BuiltinRegistry
    /\ pc = "idle"
    /\ ret = NoRet

\* apply_extensions(yaml_data, extension_names), with or without the opt-in
CallApplyExtensions ==
    /\ pc = "idle"
    /\ \E extension_names \in NameLists, opt_in \in BOOLEAN :
       \E out \in apply_extensions(yaml_data, extension_names, opt_in,
                                   registry, project_files) :
          /\ yaml_data' = out.yaml_data
          /\ ret' = [op |-> "apply_extensions",
                     arg |-> [names |-> extension_names, opt_in |-> opt_in],
                     err |-> out.err, val |-> "none"]
    /\ pc' = "returned"
    /\ UNCHANGED <<project_files, new_part, registry>>

\* Flask(project_root, yaml_data).get_root_snippet()
CallGetRootSnippet ==
    /\ pc = "idle"
    /\ \E out \in RootSnippetOutcomes(yaml_data, project_files) :
          /\ yaml_data' = out.yaml_data
          /\ ret' = [op |-> "get_root_snippet", arg |-> "none",
                     err |-> out.err, val |-> out.val]
    /\ pc' = "returned"
    /\ UNCHANGED <<project_files, new_part, registry>>

NextApply == CallApplyExtensions \/ CallGetRootSnippet \/ Return

SpecApply == InitApply /\ [][NextApply]_vars

\* a step in which apply_extensions is called on a list that starts with a
\* registered extension
ApplyStep ==
    /\ pc = "idle" /\ pc' = "returned"
    /\ ret'.op = "apply_extensions"
    /\ ret'.arg.names # <<>>
    /\ Head(ret'.arg.names) \in DOMAIN registry

RootSnippetStep ==
    pc = "idle" /\ pc' = "returned" /\ ret'.op = "get_root_snippet"

IsReturnedApply == pc = "returned" /\ ret.op = "apply_extensions"

HasRequirements == "requirements.txt" \in Range(project_files)

BaseIsSupported ==
    /\ "base" \in DOMAIN yaml_data
    /\ yaml_data["base"].val \in {"bare", "ubuntu:20.04", "ubuntu:22.04"}

\* C6: if the document's declared base is not one of "bare", "ubuntu:20.04",
\* "ubuntu:22.04", apply fails with UnsupportedBaseError, whatever the snippet
\* would have been, and the document is unchanged.
C6_UnsupportedBase ==
    [][(ApplyStep /\ ~BaseIsSupported) =>
        (ret'.err = UnsupportedBaseError /\ yaml_data' = yaml_data)]_vars

\* apply was refused for the base "unsupported-base:1.0" although the opt-in
\* was given and requirements.txt exists
C6_Witness ==
    /\ IsReturnedApply
    /\ ret.err = UnsupportedBaseError
    /\ ret.arg.opt_in
    /\ HasRequirements
    /\ "base" \in DOMAIN yaml_data
    /\ yaml_data["base"] = Scalar("unsupported-base:1.0")

C8_MissingRequirements ==
    [][~HasRequirements =>
        /\ RootSnippetStep => (ret'.err = ValidationError /\ yaml_data' = yaml_data)
        /\ (ApplyStep /\ ret'.arg.opt_in /\ BaseIsSupported) =>
              (ret'.err = ValidationError /\ yaml_data' = yaml_data)
    ]_vars

\* the snippet of a document whose dependencies part conflicts with the
\* extension's was asked for without requirements.txt, and the validation
\* error was raised
C8_Witness ==
    /\ pc = "returned"
    /\ ret.op = "get_root_snippet"
    /\ ret.err = ValidationError
    /\ ~HasRequirements
    /\ dependencies_part_name \in DOMAIN CurrentParts(yaml_data)
    /\ "plugin" \in DOMAIN CurrentParts(yaml_data)[dependencies_part_name]

RootDefaultKeys == {"run_user", "build-base", "platforms"}

\* C9: the root snippet holds "run_user", "build-base" or "platforms" only if
\* the document lacks that key ("build-base" only if also the base is "bare"
\* or undeclared); so an apply that succeeds leaves every root default the
\* document already had as it was.
C9_RootDefaultsOnlyFillAbsent ==
    [][/\ (RootSnippetStep /\ ret'.err = NoError) =>
            /\ \A k \in RootDefaultKeys :
                 k \in DOMAIN ret'.val => k \notin DOMAIN yaml_data
            /\ "build-base" \in DOMAIN ret'.val =>
                 ("base" \notin DOMAIN yaml_data \/ yaml_data["base"] = Scalar("bare"))
       /\ (ApplyStep /\ ret'.err = NoError) =>
            \A k \in RootDefaultKeys :
               k \in DOMAIN yaml_data =>
                  (k \in DOMAIN yaml_data' /\ yaml_data'[k] = yaml_data[k])
    ]_vars

\* the extension was applied twice in a row to a document that had its own
\* run_user, and the document still has it
C9_Witness ==
    /\ IsReturnedApply
    /\ ret.err = NoError
    /\ ret.arg.names = <<"flask", "flask">>
    /\ yaml_data["run_user"] = Scalar("root")
    /\ yaml_data["platforms"] = Mapping("amd64" :> Mapping(EmptyDict))

MergeErrors == {ConflictError, TypeMismatchError}

\* C10: if merging any property of any part of the extension's snippet fails,
\* apply aborts with that error and nothing of the snippet (root defaults or
\* an already merged part) is in the document; the same holds of the snippet
\* computation itself.
C10_AllOrNothing ==
    [][/\ (ApplyStep /\ ret'.err \in MergeErrors) => yaml_data' = yaml_data
       /\ (RootSnippetStep /\ ret'.err \in MergeErrors) => yaml_data' = yaml_data
    ]_vars

\* apply failed with ConflictError on the install-app part, after the
\* dependencies part had merged, on a document without root defaults
C10_Witness ==
    /\ IsReturnedApply
    /\ ret.err = ConflictError
    /\ "run_user" \notin DOMAIN yaml_data
    /\ install_app_part_name \in DOMAIN CurrentParts(yaml_data)
    /\ CurrentParts(yaml_data)[install_app_part_name] = ("plugin" :> Scalar("nil"))
    /\ dependencies_part_name \in DOMAIN CurrentParts(yaml_data)
    /\ CurrentParts(yaml_data)[dependencies_part_name]
         = ("stage-packages" :> List(<<"curl", "python3-venv">>))

====
